---- MODULE Spec2Model ----
(***************************************************************************)
(* Two-table persistence protocol of the exposure ingester:                *)
(*   exposure_events    append-only audit log, primary key event_id        *)
(*   exposures_current  one row per (office_id, exposure_id), upserted     *)
(* as implemented by src/ingestion/src/storage/repository.py and driven by *)
(* the session scope of src/ingestion/src/storage/database.py.             *)
(*                                                                         *)
(* A table is a sequence of rows in insertion order.  A session has a      *)
(* transaction-local view (tx_events, tx_current), pending ORM objects that *)
(* have not been flushed yet (pending), and the committed store (db_events, *)
(* db_current).                                                            *)
(*                                                                         *)
(* Specifications:                                                         *)
(*   Spec            one caller at a time runs ingest_events in a session  *)
(*   SpecModels      construction and validation of canonical models       *)
(*   SpecMerge       single observations merged into one row               *)
(*   SpecConcurrent  two sessions merge the same key concurrently          *)
(*   SpecQuarantine  quarantine_file                                       *)
(*   SpecIds         generate_exposure_id and generate_dedupe_key          *)
(*   SpecSanitize    sanitize_payload                                      *)
(*   SpecEventIds    generate_event_id under a millisecond clock           *)
(*   SpecTransform   a transformer walking the findings of one scan file   *)
(*                                                                         *)
(* Names that repository.py uses without importing them (insert,           *)
(* sanitize_payload, QuarantinedFile) are resolved to the SQLAlchemy       *)
(* dialect insert construct and to the repository's own definitions.       *)
(***************************************************************************)
EXTENDS Integers, Sequences, FiniteSets, TLC

(***************************************************************************)
(* Bounds of the model.                                                    *)
(***************************************************************************)
\* chunk size; repository.py sets 500, scaled down so that a call of
\* MaxBatch events has a full chunk and a partial one
BATCH_SIZE == 2
\* longest event list handed to one ingest_events call
MaxBatch == 3
\* number of events the audit log can take
MaxEvents == 3
\* timestamps are 1..MaxTime
MaxTime == 2
\* number of rows quarantined_files can take
MaxQuarantined == 2
\* longest evidence list of a payload handed to sanitize_payload
MaxEvidence == 2
\* longest list of ports / findings in one scan file
MaxFindings == 3
\* the first reading of the wall clock, one tick before the sixteens digit of
\* the millisecond count changes
FirstClock == 14
\* the clock advances at most this many milliseconds
MaxTicks == 3
\* number of event ids handed out
MaxIssued == 2
\* the random part of an event id is drawn from 0..MaxRand
MaxRand == 1

Times == 1..MaxTime

\* Python None for string-valued columns, and for an absent datetime
None == "None"
NoTime == 0
\* a VectorDestination without a port
NoPort == -1

Min(a, b) == IF a < b THEN a ELSE b

(***************************************************************************)
(* Canonical events (models/canonical.py), reduced to the attributes the   *)
(* storage conversions read.  scanner_id stands for the columns that are   *)
(* written on insert and are in neither update list of the native upsert   *)
(* (exposure_class, dst_ip, dst_port, protocol, transport, asset_id,       *)
(* scanner_id, scanner_type, office_name).                                 *)
(***************************************************************************)
Offices == {"office-1", "office-2"}
Exposures == {"exp-1", "exp-2"}

\* an ordering check that also rejects equal timestamps
validate_timestamps_strict(first_seen, last_seen) ==
  (first_seen # NoTime /\ last_seen # NoTime) => first_seen < last_seen

\* Exposure.validate_timestamps
validate_timestamps(first_seen, last_seen) ==
  (first_seen # NoTime /\ last_seen # NoTime) => ~(last_seen < first_seen)

\* an alignment check that forgets the suppressed status
validate_status_action_alignment_resolved_only(status, action) ==
  status = "resolved" => action = "exposure_resolved"

\* ExposureEventModel.validate_status_action_alignment
validate_status_action_alignment(status, action) ==
  /\ (status = "resolved" => action = "exposure_resolved")
  /\ (status = "suppressed" => action = "exposure_suppressed")

BaseEvent ==
  [ timestamp |-> 1, office_id |-> "office-1", exposure_id |-> "exp-1",
    status |-> "open", action |-> "exposure_opened", kind |-> "event",
    severity |-> 50, first_seen |-> NoTime, last_seen |-> NoTime,
    scanner_id |-> "scanner-1", service_product |-> None,
    disposition_owner |-> None ]

\* observations that differ from the base one in their timestamps: a later
\* event timestamp, or one exposure-level seen field that is later than it
TimeVariants ==
  { [BaseEvent EXCEPT !.timestamp = t] : t \in Times } \cup
  { [BaseEvent EXCEPT !.first_seen = MaxTime],
    [BaseEvent EXCEPT !.last_seen = MaxTime] }

\* observations of other business keys
KeyVariants ==
  { [BaseEvent EXCEPT !.office_id = "office-2"],
    [BaseEvent EXCEPT !.exposure_id = "exp-2"] }

\* observations that differ in status, severity and descriptive fields
FieldVariants ==
  { [BaseEvent EXCEPT !.status = "resolved", !.action = "exposure_resolved",
                      !.severity = 60, !.service_product = "nginx 1.18",
                      !.scanner_id = "scanner-2"],
    [BaseEvent EXCEPT !.status = "observed", !.action = "exposure_observed",
                      !.kind = "state", !.disposition_owner = "secops"],
    [BaseEvent EXCEPT !.status = "resolved", !.action = "exposure_opened"] }

\* the events a transformer can hand over: only validated models exist
EventPool ==
  { e \in TimeVariants \cup KeyVariants \cup FieldVariants :
      /\ validate_timestamps(e.first_seen, e.last_seen)
      /\ validate_status_action_alignment(e.status, e.action) }

WithId(e, id) ==
  [ event_id |-> id, timestamp |-> e.timestamp, office_id |-> e.office_id,
    exposure_id |-> e.exposure_id, status |-> e.status, action |-> e.action,
    kind |-> e.kind, severity |-> e.severity, first_seen |-> e.first_seen,
    last_seen |-> e.last_seen, scanner_id |-> e.scanner_id,
    service_product |-> e.service_product,
    disposition_owner |-> e.disposition_owner ]

(***************************************************************************)
(* Conversions to storage dicts.                                           *)
(***************************************************************************)
\* Python "a or b" on an optional datetime
OrElse(a, b) == IF a # NoTime THEN a ELSE b

\* columns of exposures_current the upsert lists as optional
optional_fields ==
  { "risk_score", "confidence",
    "asset_hostname", "asset_ip", "asset_mac", "asset_os", "asset_managed",
    "service_name", "service_product", "service_version",
    "service_tls", "service_auth", "service_bind_scope",
    "service_json", "resource_json", "data_class_json",
    "office_region", "office_network_zone",
    "disposition_ticket", "disposition_owner", "disposition_sla" }

\* columns that are NOT NULL and hold integers in the model
IntColumns == {"severity", "first_seen", "last_seen"}

CurrentColumns ==
  {"office_id", "exposure_id", "status", "severity", "first_seen",
   "last_seen", "event_action", "event_kind", "scanner_id"} \cup optional_fields

_event_model_to_current_dict(event) ==
  [ c \in CurrentColumns |->
      CASE c = "office_id"   -> event.office_id
        [] c = "exposure_id" -> event.exposure_id
        [] c = "status"      -> event.status
        [] c = "severity"    -> event.severity
        [] c = "first_seen"  -> OrElse(event.first_seen, event.timestamp)
        [] c = "last_seen"   -> OrElse(event.last_seen, event.timestamp)
        [] c = "event_action" -> event.action
        [] c = "event_kind"  -> event.kind
        [] c = "scanner_id"  -> event.scanner_id
        [] c = "service_product" -> event.service_product
        [] c = "disposition_owner" -> event.disposition_owner
        [] OTHER -> None ]

_event_model_to_dict(event) ==
  [ event_id |-> event.event_id, timestamp |-> event.timestamp,
    office_id |-> event.office_id, exposure_id |-> event.exposure_id,
    exposure_status |-> event.status, event_action |-> event.action,
    event_kind |-> event.kind, severity |-> event.severity,
    scanner_id |-> event.scanner_id,
    service_product |-> event.service_product ]

(***************************************************************************)
(* Tables and constraints (models/storage.py).                             *)
(***************************************************************************)
\* a key that ignores the office
BusinessKey_exposure_only(row) == <<row.exposure_id>>

\* UniqueConstraint('office_id', 'exposure_id'); also the conflict target
\* index_elements=['office_id', 'exposure_id'] and the filter_by of the
\* manual path
BusinessKey(row) == <<row.office_id, row.exposure_id>>

Keys == Offices \X Exposures

\* positions of the rows of a table that carry business key k
RowsOf(table, k) == { n \in 1..Len(table) : BusinessKey(table[n]) = k }

\* Query.first(): position of the first matching row, 0 when there is none
First(table, k) ==
  IF RowsOf(table, k) = {} THEN 0
  ELSE CHOOSE n \in RowsOf(table, k) : \A m \in RowsOf(table, k) : n <= m

\* the table without its unique constraint
uq_office_exposure_dropped(table, row) == TRUE

\* uq_office_exposure rejects a second row with the same business key
uq_office_exposure(table, row) == RowsOf(table, BusinessKey(row)) = {}

\* primary key of exposure_events
EventIds(table) == { table[n].event_id : n \in 1..Len(table) }

\* an insert that overwrites the row that has the primary key already
RECURSIVE bulk_insert_mappings_merge(_, _)
bulk_insert_mappings_merge(table, rows) ==
  IF rows = <<>> THEN [ok |-> TRUE, table |-> table]
  ELSE IF Head(rows).event_id \in EventIds(table)
       THEN bulk_insert_mappings_merge(
              [ n \in 1..Len(table) |->
                  IF table[n].event_id = Head(rows).event_id
                  THEN Head(rows) ELSE table[n] ],
              Tail(rows))
       ELSE bulk_insert_mappings_merge(Append(table, Head(rows)), Tail(rows))

\* an insert into a table without its primary key
bulk_insert_mappings_no_pk(table, rows) ==
  [ok |-> TRUE, table |-> table \o rows]

\* Session.bulk_insert_mappings(ExposureEvent, chunk): the rows are inserted
\* one after the other, a repeated primary key raises IntegrityError
RECURSIVE bulk_insert_mappings(_, _)
bulk_insert_mappings(table, rows) ==
  IF rows = <<>> THEN [ok |-> TRUE, table |-> table]
  ELSE IF Head(rows).event_id \in EventIds(table)
       THEN [ok |-> FALSE, table |-> table]
       ELSE bulk_insert_mappings(Append(table, Head(rows)), Tail(rows))

(***************************************************************************)
(* Merge of one incoming dict into an existing row.                        *)
(***************************************************************************)
\* an update list that also overwrites first_seen
update_values_with_first_seen ==
  {"first_seen", "last_seen", "status", "severity", "event_action",
   "event_kind"} \cup optional_fields

\* the keys of update_values in _upsert_chunk (updated_at is not modelled)
update_values ==
  {"last_seen", "status", "severity", "event_action", "event_kind"}
    \cup optional_fields

\* ON CONFLICT (office_id, exposure_id) DO NOTHING
on_conflict_do_nothing(existing, data) == existing

\* ON CONFLICT (office_id, exposure_id) DO UPDATE SET c = excluded.c
on_conflict_do_update(existing, data) ==
  [ c \in CurrentColumns |->
      IF c \in update_values THEN data[c] ELSE existing[c] ]

\* "value is not None" for a column of the dict
IsNotNone(c, value) == IF c \in IntColumns THEN TRUE ELSE value # None

\* the update branch of _manual_upsert
manual_update(existing, data) ==
  [ c \in CurrentColumns |->
      IF c \notin {"office_id", "exposure_id", "first_seen", "created_at"}
           /\ IsNotNone(c, data[c])
      THEN data[c]
      ELSE IF c \in {"last_seen", "status", "severity", "event_action",
                     "event_kind"}
           THEN data[c]
           ELSE existing[c] ]

\* session.execute(upsert_stmt, current_dicts): executemany, one statement
\* per parameter set, each seeing the rows written by the previous ones
RECURSIVE execute_upsert(_, _)
execute_upsert(table, dicts) ==
  IF dicts = <<>> THEN table
  ELSE LET data == Head(dicts)
           n == First(table, BusinessKey(data))
       IN execute_upsert(
            IF uq_office_exposure(table, data)
            THEN Append(table, data)
            ELSE [table EXCEPT ![n] = on_conflict_do_update(table[n], data)],
            Tail(dicts))

\* Session.flush(): INSERT the pending objects in the order they were added
RECURSIVE flush(_, _)
flush(table, new) ==
  IF new = <<>> THEN [ok |-> TRUE, table |-> table]
  ELSE IF ~uq_office_exposure(table, Head(new))
       THEN [ok |-> FALSE, table |-> table]
       ELSE flush(Append(table, Head(new)), Tail(new))

\* the loop of _manual_upsert over a session state
\*   s.table: rows visible to queries, s.new: pending objects,
\*   s.ok: no flush has failed, s.inserted / s.updated: the counters
RECURSIVE _manual_upsert(_, _, _)
_manual_upsert(s, dicts, auto) ==
  IF dicts = <<>> \/ ~s.ok THEN s
  ELSE LET data == Head(dicts)
           \* Query.first() flushes first when the session autoflushes
           fl == IF auto THEN flush(s.table, s.new)
                 ELSE [ok |-> TRUE, table |-> s.table]
           new == IF auto THEN <<>> ELSE s.new
           n == First(fl.table, BusinessKey(data))
       IN IF ~fl.ok THEN [s EXCEPT !.ok = FALSE]
          ELSE IF n # 0
          THEN _manual_upsert(
                 [ok |-> TRUE,
                  table |-> [fl.table EXCEPT ![n] = manual_update(fl.table[n], data)],
                  new |-> new, inserted |-> s.inserted,
                  updated |-> s.updated + 1],
                 Tail(dicts), auto)
          ELSE _manual_upsert(
                 [ok |-> TRUE, table |-> fl.table, new |-> Append(new, data),
                  inserted |-> s.inserted + 1, updated |-> s.updated],
                 Tail(dicts), auto)

\* event_dicts = [self._event_model_to_dict(event) for event in events]
event_dicts(evs) == [ n \in 1..Len(evs) |-> _event_model_to_dict(evs[n]) ]

\* current_dicts = [self._event_model_to_current_dict(event) for event in events]
to_current_dicts(evs) ==
  [ n \in 1..Len(evs) |-> _event_model_to_current_dict(evs[n]) ]

\* a slice that stops one element short: events[i:i + BATCH_SIZE - 1]
Chunk_short(events, i) ==
  SubSeq(events, i + 1, Min(i + BATCH_SIZE - 1, Len(events)))

\* events[i:i + BATCH_SIZE], i counted from 0
Chunk(events, i) == SubSeq(events, i + 1, Min(i + BATCH_SIZE, Len(events)))

(***************************************************************************)
(* State.                                                                  *)
(***************************************************************************)
VARIABLES
  db_events,    \* committed exposure_events
  db_current,   \* committed exposures_current
  db_merged,    \* history: event ids whose merge is committed
  tx_events,    \* exposure_events as the open transaction sees it
  tx_current,   \* exposures_current as the open transaction sees it
  tx_merged,    \* history: event ids merged by the open transaction
  pending,      \* ExposureCurrent objects added to the session, not flushed
  pc,           \* "idle", or the position of the running call:
                \*   "insert" in batch_insert_events, "upsert" in
                \*   batch_upsert_current, "commit" at the end of the with-body
  events,       \* argument of the running ingest_events call
  i,            \* loop index of the running batch loop
  stats,        \* events_inserted and the accumulated upsert counters
  path,         \* "native": the ON CONFLICT statement executes,
                \* "manual": it raises and _manual_upsert runs
  autoflush,    \* autoflush setting of the session factory that made the session
  result,       \* what the last call reported to its caller
  candidate,    \* the fields last handed to the ExposureEventModel constructor
  verdict,      \* what the constructor did with them
  m_before,     \* exposures_current before the last single-event merge
  m_table,      \* exposures_current after it
  m_last,       \* the event of that merge, the path it took and how it ended
  c_init,       \* exposures_current when the two concurrent calls began
  c_store,      \* committed exposures_current the concurrent sessions share
  c_sess,       \* per session: position, dict, path, what it read and wrote
  q_table,      \* committed quarantined_files
  q_result,     \* how the last quarantine_file call ended
  id_calls,     \* the last two calls of the hashed-id functions, with results
  s_payload,    \* the payload last handed to sanitize_payload
  s_out,        \* what sanitize_payload returned for it
  e_clock,      \* the wall clock, in milliseconds
  e_issued,     \* the event ids handed out: worker, clock reading, id
  t_scanner,    \* the transformer that runs: "nmap" or "nuclei"
  t_findings,   \* the ports / findings of the scan file it was given
  t_pos,        \* how many of them it has processed
  t_events,     \* the events it has collected
  t_quarantined, \* the findings it has handed to the quarantine
  t_status      \* "idle", "running", "returned" or "raised"

\* the ingest call and its two tables
ingest_vars == <<db_events, db_current, db_merged, tx_events, tx_current,
                 tx_merged, pending, pc, events, i, stats, path, autoflush,
                 result>>

\* the state of everything else
models_vars == <<candidate, verdict>>
merge_vars == <<m_before, m_table, m_last>>
conc_vars == <<c_init, c_store, c_sess>>
quar_vars == <<q_table, q_result>>
ids_vars == <<id_calls>>
san_vars == <<s_payload, s_out>>
eid_vars == <<e_clock, e_issued>>
tr_vars == <<t_scanner, t_findings, t_pos, t_events, t_quarantined, t_status>>
util_vars == <<id_calls, s_payload, s_out, e_clock, e_issued,
               t_scanner, t_findings, t_pos, t_events, t_quarantined, t_status>>
store_vars == <<db_events, db_current, db_merged, tx_events, tx_current,
                tx_merged, pending, pc, events, i, stats, path, autoflush,
                result, candidate, verdict, m_before, m_table, m_last,
                c_init, c_store, c_sess, q_table, q_result>>
other_vars == <<candidate, verdict, m_before, m_table, m_last,
                c_init, c_store, c_sess, q_table, q_result,
                id_calls, s_payload, s_out, e_clock, e_issued,
                t_scanner, t_findings, t_pos, t_events, t_quarantined, t_status>>

vars == <<db_events, db_current, db_merged, tx_events, tx_current, tx_merged,
          pending, pc, events, i, stats, path, autoflush, result,
          candidate, verdict, m_before, m_table, m_last,
          c_init, c_store, c_sess, q_table, q_result,
          id_calls, s_payload, s_out, e_clock, e_issued,
          t_scanner, t_findings, t_pos, t_events, t_quarantined, t_status>>

\* no model has been constructed yet
NoCandidate ==
  [ status |-> "", action |-> "", class |-> "", transport |-> "",
    dst |-> [present |-> FALSE, port |-> NoPort],
    first_seen |-> NoTime, last_seen |-> NoTime ]

ZeroStats == [events_inserted |-> 0, exposures_inserted |-> 0,
              exposures_updated |-> 0]

\* at: where the call stood when it ended (phase and loop index)
NoResult == [outcome |-> "none", error |-> "", stats |-> ZeroStats,
             at |-> <<"", 0>>]

\* the sessions that run concurrently
Sessions == {"s1", "s2"}

\* a session that has not been handed a call
IdleSession ==
  [ pc |-> "idle", path |-> "native", data |-> <<>>, loaded |-> <<>>,
    written |-> <<>>, branch |-> "none", error |-> "" ]

\* everything but the shared store of the concurrent sessions
InitRest ==
  /\ db_events = <<>> /\ db_current = <<>> /\ db_merged = {}
  /\ tx_events = <<>> /\ tx_current = <<>> /\ tx_merged = {}
  /\ pending = <<>>
  /\ pc = "idle"
  /\ events = <<>>
  /\ i = 0
  /\ stats = ZeroStats
  /\ path = "native"
  /\ autoflush = TRUE
  /\ result = NoResult
  /\ candidate = NoCandidate
  /\ verdict = "none"
  /\ m_before = <<>> /\ m_table = <<>> /\ m_last = <<>>
  /\ c_sess = [ s \in Sessions |-> IdleSession ]
  /\ q_table = <<>> /\ q_result = "none"
  /\ id_calls = <<>>
  /\ s_payload = <<>> /\ s_out = <<>>
  /\ e_clock = FirstClock /\ e_issued = <<>>
  /\ t_scanner = "nmap" /\ t_findings = <<>> /\ t_pos = 0
  /\ t_events = <<>> /\ t_quarantined = <<>> /\ t_status = "idle"

Init ==
  /\ InitRest
  /\ c_init = <<>> /\ c_store = <<>>

(***************************************************************************)
(* Session scope (database.py get_db_session, connection.py).              *)
(***************************************************************************)
\* a session whose statements commit as they execute
autocommit_on == TRUE

\* sessionmaker(autocommit=False): a statement does not commit by itself
autocommit == FALSE

\* an except branch that keeps what the transaction wrote
session_rollback_keeps(committed, local) == local

\* "except Exception: session.rollback(); raise"
session_rollback(committed, local) == committed

\* a close that commits the open transaction
session_close_keeps(committed, local) == local

\* "finally: session.close()" with the transaction still open
session_close(committed, local) == committed

\* the call is over: the session is gone and the caller has its answer
Return(outcome, error, st) ==
  /\ pc' = "idle"
  /\ events' = <<>>
  /\ i' = 0
  /\ stats' = ZeroStats
  /\ pending' = <<>>
  /\ path' = "native"
  /\ autoflush' = TRUE
  /\ tx_events' = db_events'
  /\ tx_current' = db_current'
  /\ tx_merged' = db_merged'
  /\ result' = [outcome |-> outcome, error |-> error, stats |-> st,
                 at |-> <<pc, i>>]
  /\ UNCHANGED other_vars

\* an exception leaves the with-body
Raise(error) ==
  /\ db_events' = session_rollback(db_events, tx_events)
  /\ db_current' = session_rollback(db_current, tx_current)
  /\ db_merged' = session_rollback(db_merged, tx_merged)
  /\ Return("error", error, ZeroStats)

(***************************************************************************)
(* ingest_events under "with get_db_session() as session" (ingest.py).     *)
(***************************************************************************)
\* generate_event_id: the k-th id that is not in use yet.  Ids that went to a
\* call that was rolled back are not in the log and may be handed out again,
\* so the ids of the log are 1..Len(db_events).
generate_event_id(k) == Len(db_events) + k

\* the caller enters the with-body and calls ingest_events(session, evs);
\* the events carry fresh ids, except that the last one may repeat the id
\* of the first event of the log or of the batch (dup)
Begin ==
  /\ pc = "idle"
  /\ \E n \in 1..MaxBatch, p \in {"native", "manual"}, a \in BOOLEAN :
       /\ Len(db_events) + n <= MaxEvents
       /\ \E f \in [1..n -> EventPool], dup \in BOOLEAN :
            /\ dup => Len(db_events) + n > 1
            /\ events' = [ k \in 1..n |->
                             WithId(f[k], IF k = n /\ dup THEN 1
                                          ELSE generate_event_id(k)) ]
       /\ path' = p
       /\ autoflush' = a
  /\ pc' = "insert"
  /\ i' = 0
  /\ stats' = ZeroStats
  /\ pending' = <<>>
  /\ tx_events' = db_events
  /\ tx_current' = db_current
  /\ tx_merged' = db_merged
  /\ result' = NoResult
  /\ UNCHANGED <<db_events, db_current, db_merged>>
  /\ UNCHANGED other_vars

\* "if not events: return {...: 0}", then the with-body commits nothing new
IngestEmpty ==
  /\ pc = "idle"
  /\ UNCHANGED <<db_events, db_current, db_merged>>
  /\ Return("ok", "", ZeroStats)

\* one iteration of the loop of batch_insert_events
InsertChunk ==
  /\ pc = "insert"
  /\ LET chunk == Chunk(event_dicts(events), i)
         r == bulk_insert_mappings(tx_events, chunk)
     IN IF ~r.ok
        THEN Raise("IntegrityError exposure_events.event_id")
        ELSE /\ tx_events' = r.table
             /\ db_events' = IF autocommit THEN r.table ELSE db_events
             /\ stats' = [stats EXCEPT !.events_inserted = @ + Len(chunk)]
             /\ IF i + BATCH_SIZE < Len(events)
                THEN /\ i' = i + BATCH_SIZE /\ pc' = "insert"
                ELSE /\ i' = 0 /\ pc' = "upsert"
             /\ UNCHANGED <<db_current, db_merged, tx_current, tx_merged,
                            pending, events, path, autoflush, result>>
             /\ UNCHANGED other_vars

\* one iteration of the loop of batch_upsert_current: _upsert_chunk(chunk)
UpsertChunk ==
  /\ pc = "upsert"
  /\ LET chunk == Chunk(events, i)
         current_dicts == to_current_dicts(chunk)
         m == _manual_upsert([ok |-> TRUE, table |-> tx_current,
                              new |-> pending, inserted |-> 0, updated |-> 0],
                             current_dicts, autoflush)
         ids == { chunk[n].event_id : n \in 1..Len(chunk) }
         next == /\ IF i + BATCH_SIZE < Len(events)
                    THEN /\ i' = i + BATCH_SIZE /\ pc' = "upsert"
                    ELSE /\ i' = 0 /\ pc' = "commit"
                 /\ tx_merged' = tx_merged \cup ids
                 /\ db_current' = IF autocommit THEN tx_current' ELSE db_current
                 /\ db_merged' = IF autocommit THEN tx_merged' ELSE db_merged
                 /\ UNCHANGED <<db_events, tx_events, events, path, autoflush,
                                result>>
                 /\ UNCHANGED other_vars
     IN IF path = "native"
        THEN \* the statement executes; the counters are estimated
             /\ tx_current' = execute_upsert(tx_current, current_dicts)
             /\ pending' = pending
             /\ stats' = [stats EXCEPT
                  !.exposures_inserted = @ + (Len(current_dicts) \div 2),
                  !.exposures_updated =
                     @ + (Len(current_dicts) - (Len(current_dicts) \div 2))]
             /\ next
        ELSE \* the statement raises and is caught; manual fallback
             IF ~m.ok
             THEN Raise("IntegrityError uq_office_exposure")
             ELSE /\ tx_current' = m.table
                  /\ pending' = m.new
                  /\ stats' = [stats EXCEPT
                       !.exposures_inserted = @ + m.inserted,
                       !.exposures_updated = @ + m.updated]
                  /\ next

\* ingest_events has returned; "session.commit()" flushes, then commits
Commit ==
  /\ pc = "commit"
  /\ LET fl == flush(tx_current, pending)
     IN IF ~fl.ok
        THEN Raise("IntegrityError uq_office_exposure")
        ELSE /\ db_events' = tx_events
             /\ db_current' = fl.table
             /\ db_merged' = tx_merged
             /\ Return("ok", "", stats)

\* a store write or the commit fails (connectivity, transaction failure)
StoreFailure ==
  /\ pc \in {"insert", "upsert", "commit"}
  /\ Raise("OperationalError")

\* the call is interrupted between two steps (KeyboardInterrupt is not an
\* Exception: only the finally clause runs)
Cancel ==
  /\ pc \in {"insert", "upsert", "commit"}
  /\ db_events' = session_close(db_events, tx_events)
  /\ db_current' = session_close(db_current, tx_current)
  /\ db_merged' = session_close(db_merged, tx_merged)
  /\ Return("cancelled", "KeyboardInterrupt", ZeroStats)

Next ==
  \/ Begin
  \/ IngestEmpty
  \/ InsertChunk
  \/ UpsertChunk
  \/ Commit
  \/ StoreFailure
  \/ Cancel

Spec == Init /\ [][Next]_vars

(***************************************************************************)
(* Construction of a canonical model (models/canonical.py): pydantic runs  *)
(* the after-validators of the nested Exposure in the order they are       *)
(* defined, then the one of the root model; the first that raises makes    *)
(* the constructor raise.                                                  *)
(***************************************************************************)
ExposureStatus == {"open", "observed", "resolved", "suppressed"}

EventAction == {"exposure_opened", "exposure_observed", "exposure_resolved",
                "exposure_suppressed"}

ExposureClass ==
  {"http_content_leak", "vcs_protocol_exposed", "fileshare_exposed",
   "remote_admin_exposed", "db_exposed", "container_api_exposed",
   "debug_port_exposed", "service_advertised_mdns",
   "egress_tunnel_indicator", "unknown_service_exposed"}

Transport == {"tcp", "udp", "icmp", "other"}

\* Optional[VectorDestination]: absent, without a port, with port 0, with
\* the port of a file share
VectorDestination ==
  { [present |-> FALSE, port |-> NoPort], [present |-> TRUE, port |-> NoPort],
    [present |-> TRUE, port |-> 0], [present |-> TRUE, port |-> 445] }

port_required_classes ==
  {"fileshare_exposed", "remote_admin_exposed", "db_exposed",
   "container_api_exposed", "debug_port_exposed", "unknown_service_exposed",
   "http_content_leak", "vcs_protocol_exposed"}

\* a port check that looks at tcp only
validate_port_requirement_tcp_only(transport, class, dst) ==
  (transport = "tcp" /\ class \in port_required_classes)
    => ~(~dst.present \/ dst.port = NoPort)

\* Exposure.validate_port_requirement
validate_port_requirement(transport, class, dst) ==
  (transport \in {"tcp", "udp"} /\ class \in port_required_classes)
    => ~(~dst.present \/ dst.port = NoPort)

\* the field values a transformer may pass to the constructor
Candidates ==
  [ status : ExposureStatus, action : EventAction, class : ExposureClass,
    transport : Transport, dst : VectorDestination,
    first_seen : {NoTime} \cup Times, last_seen : {NoTime} \cup Times ]

\* ExposureEventModel(...): "ok", or the message of the ValueError raised
model_validate(c) ==
  IF ~validate_timestamps(c.first_seen, c.last_seen)
  THEN "last_seen must be >= first_seen"
  ELSE IF ~validate_port_requirement(c.transport, c.class, c.dst)
  THEN "port required"
  ELSE IF ~validate_status_action_alignment(c.status, c.action)
  THEN "status requires action"
  ELSE "ok"

\* a transformer constructs a model from the fields it parsed
Construct ==
  /\ verdict = "none"
  /\ \E c \in Candidates :
       /\ candidate' = c
       /\ verdict' = model_validate(c)
  /\ UNCHANGED ingest_vars
  /\ UNCHANGED merge_vars
  /\ UNCHANGED conc_vars
  /\ UNCHANGED quar_vars
  /\ UNCHANGED util_vars

\* the transformer goes on to its next finding
NextFinding ==
  /\ verdict # "none"
  /\ candidate' = NoCandidate
  /\ verdict' = "none"
  /\ UNCHANGED ingest_vars
  /\ UNCHANGED merge_vars
  /\ UNCHANGED conc_vars
  /\ UNCHANGED quar_vars
  /\ UNCHANGED util_vars

NextModels ==
  \/ Construct
  \/ NextFinding

SpecModels == Init /\ [][NextModels]_vars

(***************************************************************************)
(* One observation merged into exposures_current by a call of its own:     *)
(* _upsert_chunk on a chunk of one event, then the commit of the session   *)
(* scope.  The observations range over every status with every action the  *)
(* alignment validator lets through.                                       *)
(***************************************************************************)
StatusEvents ==
  { [BaseEvent EXCEPT !.status = st, !.action = ac, !.kind = ks[1],
                      !.severity = ks[2]] :
      st \in ExposureStatus, ac \in EventAction,
      ks \in {<<"event", 50>>, <<"state", 60>>} }

ValidStatusEvents ==
  { e \in StatusEvents : validate_status_action_alignment(e.status, e.action) }

UpsertOne ==
  /\ \E e \in ValidStatusEvents, p \in {"native", "manual"}, a \in BOOLEAN :
       \* the autoflush setting plays no part when the statement executes
       /\ p = "native" => a
       /\ LET data == _event_model_to_current_dict(e)
              m == _manual_upsert([ok |-> TRUE, table |-> m_table,
                                   new |-> <<>>, inserted |-> 0,
                                   updated |-> 0], <<data>>, a)
              fl == flush(m.table, m.new)
          IN /\ m_before' = m_table
             /\ m_table' = IF p = "native"
                           THEN execute_upsert(m_table, <<data>>)
                           ELSE IF m.ok /\ fl.ok THEN fl.table
                           ELSE session_rollback(m_table, fl.table)
             /\ m_last' = << [event |-> e, path |-> p, autoflush |-> a,
                              ok |-> (p = "native" \/ (m.ok /\ fl.ok))] >>
  /\ UNCHANGED ingest_vars
  /\ UNCHANGED models_vars
  /\ UNCHANGED conc_vars
  /\ UNCHANGED quar_vars
  /\ UNCHANGED util_vars

NextMerge == UpsertOne

SpecMerge == Init /\ [][NextMerge]_vars

(***************************************************************************)
(* quarantine_file (repository.py): build the record, add it to the        *)
(* session and commit; there is no try around either call, so what add or  *)
(* commit raises leaves the method.                                        *)
(***************************************************************************)
\* QuarantinedFile(filename=..., error_type=..., scanner_type=...,
\* office_id=...)
QuarantinedFile(filename, error_type, scanner_type, office_id) ==
  [ filename |-> filename, error_type |-> error_type,
    scanner_type |-> scanner_type, office_id |-> office_id ]

quarantine_file ==
  /\ Len(q_table) < MaxQuarantined
  /\ \E filename \in {"scan.xml", "findings.json"},
        error_type \in {"XMLParseError", "ValidationError"},
        scanner_type \in {None, "nmap"},
        office_id \in {None, "office-1"},
        commit_ok \in BOOLEAN :
       IF commit_ok
       THEN /\ q_table' = Append(q_table,
                             QuarantinedFile(filename, error_type,
                                             scanner_type, office_id))
            /\ q_result' = "returned"
       ELSE \* session.commit() raises: the store is unavailable
            /\ q_table' = q_table
            /\ q_result' = "raised OperationalError"
  /\ UNCHANGED ingest_vars
  /\ UNCHANGED models_vars
  /\ UNCHANGED merge_vars
  /\ UNCHANGED conc_vars
  /\ UNCHANGED util_vars

NextQuarantine == quarantine_file

SpecQuarantine == Init /\ [][NextQuarantine]_vars

(***************************************************************************)
(* Two sessions of the session factory, each in its own transaction, merge *)
(* one observation of the same exposure into exposures_current.  The code  *)
(* takes no lock and does not retry.  A session on the manual path reads   *)
(* the committed table (Query) and writes at the flush of its commit; a    *)
(* session on the native path writes when the statement executes and       *)
(* publishes at its commit.  What the store does with a write that meets   *)
(* the write of another transaction depends on the backend: it waits for   *)
(* the other transaction to end (the write is not enabled until then), or  *)
(* it raises a transaction conflict (Conflict).                            *)
(***************************************************************************)
\* the observations of the exposure, among them an open one that reports
\* the action exposure_resolved (the alignment validator passes it)
SameKeyEvents ==
  { e \in EventPool \cup {[BaseEvent EXCEPT !.action = "exposure_resolved"]} :
      /\ e.office_id = BaseEvent.office_id
      /\ e.exposure_id = BaseEvent.exposure_id
      /\ validate_status_action_alignment(e.status, e.action) }

\* the table before the two calls: empty, or with the row of the exposure
SeedStores ==
  {<<>>} \cup { <<_event_model_to_current_dict(e)>> : e \in SameKeyEvents }

InitConcurrent ==
  /\ InitRest
  /\ c_init \in SeedStores
  /\ c_store = c_init

\* what the concurrent sessions leave alone
outside_conc == <<ingest_vars, models_vars, merge_vars, quar_vars, util_vars>>

\* another transaction holds an uncommitted write
Locked(s) == \E t \in Sessions \ {s} : c_sess[t].written # <<>>

\* the row was committed anew after session s loaded it
Stale(s) ==
  /\ c_sess[s].loaded # <<>>
  /\ c_store[First(c_store, BusinessKey(c_sess[s].loaded[1]))]
       # c_sess[s].loaded[1]

\* the UPDATE the unit of work emits for a loaded object: the attributes
\* whose value differs from the loaded one, on the row as it is now
orm_update(row, loaded, new) ==
  [ c \in CurrentColumns |-> IF new[c] # loaded[c] THEN new[c] ELSE row[c] ]

\* the caller enters "with get_db_session()" and calls ingest_events
StartCall(s) ==
  /\ c_sess[s].pc = "idle"
  /\ \E e \in SameKeyEvents, p \in {"native", "manual"} :
       c_sess' = [c_sess EXCEPT ![s] =
                    [IdleSession EXCEPT
                       !.pc = IF p = "native" THEN "execute" ELSE "query",
                       !.path = p,
                       !.data = <<_event_model_to_current_dict(e)>>]]
  /\ UNCHANGED <<c_init, c_store>>
  /\ UNCHANGED outside_conc

\* _manual_upsert: session.query(ExposureCurrent).filter_by(...).first(),
\* then the attribute assignments or session.add, which stay in memory
Query(s) ==
  /\ c_sess[s].pc = "query"
  /\ LET n == First(c_store, BusinessKey(c_sess[s].data[1]))
     IN c_sess' = [c_sess EXCEPT ![s] =
                     [@ EXCEPT !.pc = "commit",
                               !.loaded = IF n = 0 THEN <<>> ELSE <<c_store[n]>>,
                               !.branch = IF n = 0 THEN "insert" ELSE "update"]]
  /\ UNCHANGED <<c_init, c_store>>
  /\ UNCHANGED outside_conc

\* _upsert_chunk: session.execute(upsert_stmt, current_dicts)
Execute(s) ==
  /\ c_sess[s].pc = "execute"
  /\ ~Locked(s)
  /\ LET t == execute_upsert(c_store, c_sess[s].data)
         k == BusinessKey(c_sess[s].data[1])
     IN c_sess' = [c_sess EXCEPT ![s] =
                     [@ EXCEPT !.pc = "commit",
                               !.written = <<t[First(t, k)]>>,
                               !.branch = IF First(c_store, k) = 0
                                          THEN "insert" ELSE "update"]]
  /\ UNCHANGED <<c_init, c_store>>
  /\ UNCHANGED outside_conc

\* get_db_session: session.commit(), which flushes first; an exception is
\* rolled back and raised to the caller
SessionCommit(s) ==
  /\ c_sess[s].pc = "commit"
  /\ LET d == c_sess[s].data[1]
         n == First(c_store, BusinessKey(d))
         done == [c_sess EXCEPT ![s] =
                    [@ EXCEPT !.pc = "committed", !.written = <<>>]]
     IN IF c_sess[s].path = "native"
        THEN /\ c_store' = IF n = 0 THEN Append(c_store, c_sess[s].written[1])
                           ELSE [c_store EXCEPT ![n] = c_sess[s].written[1]]
             /\ c_sess' = done
        ELSE /\ ~Locked(s)
             /\ IF c_sess[s].loaded = <<>>
                THEN IF uq_office_exposure(c_store, d)
                     THEN /\ c_store' = Append(c_store, d)
                          /\ c_sess' = done
                     ELSE /\ c_store' = session_rollback(c_store, c_store)
                          /\ c_sess' = [c_sess EXCEPT ![s] =
                               [@ EXCEPT !.pc = "failed",
                                  !.error = "IntegrityError uq_office_exposure"]]
                ELSE /\ c_store' =
                          [c_store EXCEPT ![n] =
                             orm_update(c_store[n], c_sess[s].loaded[1],
                                        manual_update(c_sess[s].loaded[1], d))]
                     /\ c_sess' = done
  /\ UNCHANGED c_init
  /\ UNCHANGED outside_conc

\* a backend that does not wait: the write of session s meets the write of
\* another transaction and the statement raises
Conflict(s) ==
  /\ \/ c_sess[s].pc = "execute" /\ Locked(s)
     \/ /\ c_sess[s].pc = "commit"
        /\ c_sess[s].path = "manual"
        /\ (Locked(s) \/ Stale(s))
  /\ c_sess' = [c_sess EXCEPT ![s] =
                  [@ EXCEPT !.pc = "failed", !.written = <<>>,
                            !.error = "TransactionConflict"]]
  /\ UNCHANGED <<c_init, c_store>>
  /\ UNCHANGED outside_conc

NextConcurrent ==
  \/ \E s \in Sessions : StartCall(s)
  \/ \E s \in Sessions : Query(s)
  \/ \E s \in Sessions : Execute(s)
  \/ \E s \in Sessions : SessionCommit(s)
  \/ \E s \in Sessions : Conflict(s)

SpecConcurrent == InitConcurrent /\ [][NextConcurrent]_vars

(***************************************************************************)
(* Vocabulary of the properties.  Rows are looked up by their columns, not *)
(* through the operators of the implementation.                            *)
(***************************************************************************)
KeyOfEvent(e) == <<e.office_id, e.exposure_id>>

RowsFor(table, k) ==
  { n \in 1..Len(table) :
      table[n].office_id = k[1] /\ table[n].exposure_id = k[2] }

Stored(table, k) == table[CHOOSE n \in RowsFor(table, k) : TRUE]

RowValues(table, k) == { table[n] : n \in RowsFor(table, k) }

\* the current-state dicts of the events of `evs` that target key k
DictsFor(evs, k) ==
  { _event_model_to_current_dict(evs[n]) :
      n \in { m \in 1..Len(evs) : KeyOfEvent(evs[m]) = k } }

IdsOf(evs) == { evs[n].event_id : n \in 1..Len(evs) }

MaxOf(S) == CHOOSE x \in S : \A y \in S : y <= x

\* the step that ends a call
Ending == pc # "idle" /\ pc' = "idle"
\* the step that ends a call with a successful commit
Committing == Ending /\ result'.outcome = "ok"
\* the step that ends a call with an injected store fault or a cancellation
Injected == Ending /\ result'.error \in {"OperationalError", "KeyboardInterrupt"}

\* what the session would write: flushed rows followed by pending objects
View == tx_current \o pending

\* one event merged on its own: against the table as it is, then flushed
merge_one(table, data, p, a) ==
  IF p = "native" THEN execute_upsert(table, <<data>>)
  ELSE LET m == _manual_upsert([ok |-> TRUE, table |-> table, new |-> <<>>,
                                inserted |-> 0, updated |-> 0], <<data>>, a)
       IN flush(m.table, m.new).table

RECURSIVE SequentialMerge(_, _, _, _)
SequentialMerge(table, dicts, p, a) ==
  IF dicts = <<>> THEN table
  ELSE SequentialMerge(merge_one(table, Head(dicts), p, a), Tail(dicts), p, a)

\* the events ingested one at a time, each by its own ingest_events call
\* inside its own session scope
RECURSIVE OneAtATime(_, _, _, _, _)
OneAtATime(ev_table, cur_table, evs, p, a) ==
  IF evs = <<>> THEN <<ev_table, cur_table>>
  ELSE LET r == bulk_insert_mappings(ev_table,
                                     <<_event_model_to_dict(Head(evs))>>)
       IN IF ~r.ok THEN OneAtATime(ev_table, cur_table, Tail(evs), p, a)
          ELSE OneAtATime(r.table,
                          merge_one(cur_table,
                                    _event_model_to_current_dict(Head(evs)),
                                    p, a),
                          Tail(evs), p, a)

FreshDistinct(evs, table) ==
  /\ IdsOf(evs) \cap EventIds(table) = {}
  /\ Cardinality(IdsOf(evs)) = Len(evs)

(***************************************************************************)
(* C1  Monotonic enrichment: once an optional column of a committed row is *)
(* non-null, a call whose events for that key all carry null in the column *)
(* leaves the stored value unchanged, on either upsert path.               *)
(***************************************************************************)
C1_MonotonicEnrichment ==
  [][ \A k \in Keys, c \in optional_fields :
        ( /\ RowsFor(db_current, k) # {}
          /\ Stored(db_current, k)[c] # None
          /\ \A d \in DictsFor(events, k) : d[c] = None )
        => ( /\ RowsFor(db_current', k) # {}
             /\ Stored(db_current', k)[c] = Stored(db_current, k)[c] ) ]_vars

(***************************************************************************)
(* C2  first_seen immutability: once a row exists, no step changes its     *)
(* first_seen or its business key, in the committed table and in the open  *)
(* transaction.                                                            *)
(***************************************************************************)
KeepsFirstSeen(old, new) ==
  \A n \in 1..Len(old) :
    /\ n <= Len(new)
    /\ new[n].first_seen = old[n].first_seen
    /\ new[n].office_id = old[n].office_id
    /\ new[n].exposure_id = old[n].exposure_id

C2_FirstSeenImmutable ==
  [][ /\ KeepsFirstSeen(db_current, db_current')
      /\ (pc = "upsert" /\ pc' # "idle")
           => KeepsFirstSeen(tx_current, tx_current') ]_vars

\* a call is about to commit a merge into a committed row whose first_seen
\* differs from the incoming one, and the row kept its first_seen
C2_Witness ==
  /\ pc = "commit"
  /\ \E n \in 1..Len(db_current), m \in 1..Len(events) :
       /\ KeyOfEvent(events[m]) = <<db_current[n].office_id,
                                    db_current[n].exposure_id>>
       /\ _event_model_to_current_dict(events[m]).first_seen
            < db_current[n].first_seen
       /\ _event_model_to_current_dict(events[m]).last_seen
            # db_current[n].last_seen
       /\ tx_current[n].first_seen = db_current[n].first_seen

(***************************************************************************)
(* C3  One row per business key: the committed reconciliation table holds  *)
(* exactly one row for every key that occurs in the committed audit log,   *)
(* none for the other keys, and never shrinks.                             *)
(***************************************************************************)
OneRowPerKey ==
  \A k \in Keys :
    Cardinality(RowsFor(db_current, k)) =
      IF \E n \in 1..Len(db_events) :
           <<db_events[n].office_id, db_events[n].exposure_id>> = k
      THEN 1 ELSE 0

C3_OneRowPerKey ==
  /\ []OneRowPerKey
  /\ [][ /\ Len(db_current') >= Len(db_current)
         /\ \A k \in Keys : RowsFor(db_current, k) \subseteq RowsFor(db_current', k)
     ]_vars

\* two observations of one exposure are committed, next to another key
C3_Witness ==
  /\ \E n, m \in 1..Len(db_events) :
       /\ n < m
       /\ db_events[n].office_id = db_events[m].office_id
       /\ db_events[n].exposure_id = db_events[m].exposure_id
  /\ Len(db_events) = 3
  /\ Len(db_current) = 2

(***************************************************************************)
(* C4  last_seen is merged as a maximum: after a committed call the stored *)
(* last_seen of an existing row is the maximum of the stored value and the *)
(* incoming ones, so it never decreases.                                   *)
(***************************************************************************)
C4_LastSeenMax ==
  [][ Committing =>
        \A k \in Keys :
          RowsFor(db_current, k) # {} =>
            /\ RowsFor(db_current', k) # {}
            /\ Stored(db_current', k).last_seen =
                 MaxOf({Stored(db_current, k).last_seen} \cup
                       { d.last_seen : d \in DictsFor(events, k) }) ]_vars

(***************************************************************************)
(* C5  Chunk atomicity: the committed store changes only by taking in      *)
(* every chunk of a call at once, audit rows and merges together; in every *)
(* committed state the events with an audit row are exactly the events     *)
(* whose merge is committed.                                               *)
(***************************************************************************)
ChunkStarts(evs) == { j \in 0..(Len(evs) - 1) : j % BATCH_SIZE = 0 }

C5_ChunkAtomicity ==
  /\ [](EventIds(db_events) = db_merged)
  /\ [][ (db_events' # db_events \/ db_current' # db_current
            \/ db_merged' # db_merged)
         => \A j \in ChunkStarts(events) :
              /\ IdsOf(Chunk(events, j)) \cap EventIds(db_events) = {}
              /\ IdsOf(Chunk(events, j)) \cap db_merged = {}
              /\ IdsOf(Chunk(events, j)) \subseteq EventIds(db_events')
              /\ IdsOf(Chunk(events, j)) \subseteq db_merged' ]_vars

\* a call of more than one chunk has committed
C5_Witness ==
  /\ result.outcome = "ok"
  /\ result.stats.events_inserted > BATCH_SIZE
  /\ Len(db_events) > BATCH_SIZE
  /\ db_merged = EventIds(db_events)

C7_InChunkTieBreak ==
  [][ (pc = "upsert" /\ ~Injected)
      => /\ pc' # "idle"
         /\ View' = SequentialMerge(View,
                      to_current_dicts(Chunk(events, i)),
                      path, autoflush) ]_vars

(***************************************************************************)
(* C8  Batch chunking transparency: a call on events with distinct, unused *)
(* ids that ran through all its chunks leaves both committed tables as     *)
(* ingesting the same events one call at a time, in order, leaves them.    *)
(***************************************************************************)
C8_ChunkingTransparent ==
  [][ (Ending /\ pc = "commit" /\ ~Injected
         /\ FreshDistinct(events, db_events))
      => <<db_events', db_current'>> =
           OneAtATime(db_events, db_current, events, path, autoflush) ]_vars

(***************************************************************************)
(* C9  Result classification: a successful call reports as                 *)
(* exposures_inserted the number of its events that created a row and as   *)
(* exposures_updated the number that were merged into an existing row.     *)
(***************************************************************************)
\* events of the call that are the first observation of their key
Creating(evs, table) ==
  { n \in 1..Len(evs) :
      /\ RowsFor(table, KeyOfEvent(evs[n])) = {}
      /\ \A m \in 1..(n - 1) : KeyOfEvent(evs[m]) # KeyOfEvent(evs[n]) }

C9_ResultClassification ==
  [][ Committing
      => /\ result'.stats.exposures_inserted =
              Cardinality(Creating(events, db_current))
         /\ result'.stats.exposures_updated =
              Len(events) - Cardinality(Creating(events, db_current)) ]_vars

(***************************************************************************)
(* C10  Per-office isolation: a step changes no row of a key that none of  *)
(* the events being merged targets - neither in the committed table nor in *)
(* the session - so the same exposure_id under two offices lives in two    *)
(* independent rows.                                                       *)
(***************************************************************************)
C10_PerOfficeIsolation ==
  [][ /\ \A k \in Keys :
           DictsFor(events, k) = {}
             => RowValues(db_current', k) = RowValues(db_current, k)
      /\ (pc = "upsert" /\ pc' # "idle")
           => \A k \in Keys :
                DictsFor(Chunk(events, i), k) = {}
                  => RowValues(View', k) = RowValues(View, k) ]_vars

\* the same exposure_id has a row under each office, and a later event for
\* office-1 has changed its row only
C10_Witness ==
  /\ Cardinality(RowsFor(db_current, <<"office-1", "exp-1">>)) = 1
  /\ Cardinality(RowsFor(db_current, <<"office-2", "exp-1">>)) = 1
  /\ Stored(db_current, <<"office-1", "exp-1">>).status = "resolved"
  /\ Stored(db_current, <<"office-2", "exp-1">>).status = "open"
  /\ db_events[Len(db_events)].office_id = "office-1"
  /\ db_events[1].office_id = "office-1"

(***************************************************************************)
(* C11  The audit log is append-only and 1:1: no step changes or removes a *)
(* committed audit row; a call that commits adds exactly one row per event *)
(* it was given, carrying that event's id and columns; every other step    *)
(* leaves the committed log as it is, so the log has as many rows as       *)
(* events were ingested by committed calls.                                *)
(***************************************************************************)
AuditRowOf(row, e) ==
  /\ row.event_id = e.event_id
  /\ row.timestamp = e.timestamp
  /\ row.office_id = e.office_id
  /\ row.exposure_id = e.exposure_id
  /\ row.exposure_status = e.status
  /\ row.event_action = e.action
  /\ row.severity = e.severity

C11_AuditAppendOnly ==
  [][ /\ \A n \in 1..Len(db_events) :
           n <= Len(db_events') /\ db_events'[n] = db_events[n]
      /\ Committing =>
           /\ Len(db_events') = Len(db_events) + Len(events)
           /\ \A m \in 1..Len(events) :
                /\ Cardinality({ n \in 1..Len(db_events') :
                     db_events'[n].event_id = events[m].event_id }) = 1
                /\ \E n \in 1..Len(db_events') :
                     AuditRowOf(db_events'[n], events[m])
      /\ ~Committing => db_events' = db_events ]_vars

\* a later call has committed a second, different observation of the
\* exposure of the first audit row, which is still as it was written
C11_Witness ==
  /\ result.outcome = "ok"
  /\ result.stats.events_inserted = 1
  /\ Len(db_events) = 2
  /\ db_events[1].office_id = db_events[2].office_id
  /\ db_events[1].exposure_id = db_events[2].exposure_id
  /\ db_events[1].exposure_status = "open"
  /\ db_events[2].exposure_status = "resolved"

(***************************************************************************)
(* C12  A duplicate event_id is a hard error: neither the committed log    *)
(* nor the log as a transaction sees it ever holds two rows with one       *)
(* event_id; an audit chunk that carries an id already in the log, or the  *)
(* same id twice, ends the call with an error, and nothing of the call is  *)
(* merged into the reconciliation table.                                   *)
(***************************************************************************)
UniqueEventIds(table) ==
  \A n, m \in 1..Len(table) : table[n].event_id = table[m].event_id => n = m

\* the audit chunk at loop index j repeats an id of the log or of itself
DuplicateIn(evs, j, table) ==
  \/ IdsOf(Chunk(evs, j)) \cap { table[n].event_id : n \in 1..Len(table) } # {}
  \/ Cardinality(IdsOf(Chunk(evs, j))) < Len(Chunk(evs, j))

PriorEvents(phase, j, evs) ==
  IF phase = "commit" THEN Len(evs) ELSE j

C13_ErrorsPropagate ==
  [][ /\ (pc = "upsert" /\ path = "manual")
           => (Ending /\ result'.outcome = "error")
      /\ (Ending /\ result'.outcome = "error")
           => result'.stats.events_inserted = PriorEvents(pc, i, events) ]_vars

(***************************************************************************)
(* C14  Row creation timestamps: a row created by the only event of a call *)
(* for its key has first_seen = last_seen = the first non-null value of    *)
(* the event's exposure.first_seen, exposure.last_seen and timestamp.      *)
(***************************************************************************)
FirstNonNull(e) ==
  IF e.first_seen # NoTime THEN e.first_seen
  ELSE IF e.last_seen # NoTime THEN e.last_seen
  ELSE e.timestamp

C14_CreationTimestamps ==
  [][ Committing =>
        \A n \in Creating(events, db_current) :
          (\A m \in 1..Len(events) :
             KeyOfEvent(events[m]) = KeyOfEvent(events[n]) => m = n)
          => /\ RowsFor(db_current', KeyOfEvent(events[n])) # {}
             /\ Stored(db_current', KeyOfEvent(events[n])).first_seen
                  = FirstNonNull(events[n])
             /\ Stored(db_current', KeyOfEvent(events[n])).last_seen
                  = FirstNonNull(events[n]) ]_vars

(***************************************************************************)
(* C16  Status/action alignment rejection: the constructor raises for      *)
(* status resolved with an action other than exposure_resolved and for     *)
(* status suppressed with an action other than exposure_suppressed; hence  *)
(* no event a call can be given, and no audit or reconciliation row made   *)
(* from one, pairs these statuses with another action.                     *)
(***************************************************************************)
Misaligned(status, action) ==
  \/ (status = "resolved" /\ action # "exposure_resolved")
  \/ (status = "suppressed" /\ action # "exposure_suppressed")

C16_AlignmentRejected ==
  /\ (verdict # "none" /\ Misaligned(candidate.status, candidate.action))
       => verdict # "ok"
  /\ \A e \in EventPool : ~Misaligned(e.status, e.action)
  /\ \A e \in EventPool :
       /\ ~Misaligned(_event_model_to_dict(WithId(e, 1)).exposure_status,
                      _event_model_to_dict(WithId(e, 1)).event_action)
       /\ ~Misaligned(_event_model_to_current_dict(e).status,
                      _event_model_to_current_dict(e).event_action)

\* a suppressed exposure reported with exposure_opened, valid in every other
\* respect, has been rejected by the alignment validator
C16_Witness ==
  /\ candidate.status = "suppressed"
  /\ candidate.action = "exposure_opened"
  /\ verdict = "status requires action"

(***************************************************************************)
(* C17  Port requirement: with transport tcp or udp and one of the eight   *)
(* port-bearing classes, the Exposure is accepted exactly when it has a    *)
(* destination whose port is non-null; with transport icmp or other, or    *)
(* with class service_advertised_mdns or egress_tunnel_indicator, a        *)
(* missing port is accepted.                                               *)
(***************************************************************************)
\* the Exposure model itself was constructed (a later failure is the root's)
ExposureAccepted ==
  verdict \notin {"none", "last_seen must be >= first_seen", "port required"}

TimestampsInOrder(c) ==
  c.first_seen = NoTime \/ c.last_seen = NoTime \/ c.first_seen <= c.last_seen

PortBearing ==
  ExposureClass \ {"service_advertised_mdns", "egress_tunnel_indicator"}

C17_PortRequirement ==
  (verdict # "none" /\ TimestampsInOrder(candidate))
  => IF candidate.transport \in {"tcp", "udp"} /\ candidate.class \in PortBearing
     THEN ExposureAccepted <=> (candidate.dst.present /\ candidate.dst.port >= 0)
     ELSE ExposureAccepted

\* a database exposed over udp with a destination that has no port has been
\* rejected for the missing port
C17_Witness ==
  /\ candidate.transport = "udp"
  /\ candidate.class = "db_exposed"
  /\ candidate.dst.present
  /\ candidate.dst.port = NoPort
  /\ verdict = "port required"

(***************************************************************************)
(* C18  Timestamp order validation: an Exposure with both first_seen and   *)
(* last_seen is rejected when last_seen < first_seen and not rejected on   *)
(* this ground when last_seen >= first_seen; with either absent no         *)
(* ordering check applies.                                                 *)
(***************************************************************************)
C18_TimestampOrder ==
  verdict # "none"
  => IF candidate.first_seen # NoTime /\ candidate.last_seen # NoTime
          /\ candidate.last_seen < candidate.first_seen
     THEN verdict = "last_seen must be >= first_seen"
     ELSE verdict # "last_seen must be >= first_seen"

\* an Exposure whose two timestamps are equal has been accepted
C18_Witness ==
  /\ candidate.first_seen # NoTime
  /\ candidate.last_seen = candidate.first_seen
  /\ candidate.transport = "icmp"
  /\ verdict = "ok"

(***************************************************************************)
(* C15  No status transition is rejected: whatever status the stored row   *)
(* has and whatever status a valid incoming event has, the merge succeeds  *)
(* and leaves one row whose status, severity, event_action and event_kind  *)
(* are those of the incoming event.                                        *)
(***************************************************************************)
C15_NoTransitionRejected ==
  (m_last # <<>> /\ m_before # <<>>)
  => /\ m_last[1].ok
     /\ Len(m_table) = 1
     /\ m_table[1].status = m_last[1].event.status
     /\ m_table[1].severity = m_last[1].event.severity
     /\ m_table[1].event_action = m_last[1].event.action
     /\ m_table[1].event_kind = m_last[1].event.kind

\* a suppressed exposure has been observed again with another severity and
\* kind, and the row has followed the event
C15_Witness ==
  /\ m_last # <<>> /\ m_before # <<>>
  /\ m_before[1].status = "suppressed"
  /\ m_before[1].severity = 50
  /\ m_before[1].event_kind = "event"
  /\ m_table[1].status = "observed"
  /\ m_table[1].severity = 60
  /\ m_table[1].event_kind = "state"
  /\ m_table[1].event_action = "exposure_observed"

(***************************************************************************)
(* C20  Quarantine never raises: whatever the input and whatever the state *)
(* of the store, quarantine_file returns normally; a failure to append the *)
(* record is dropped.                                                      *)
(***************************************************************************)
C20_QuarantineNeverRaises == q_result \in {"none", "returned"}

(***************************************************************************)
(* C19  Per-key serialization under concurrency: when two sessions have    *)
(* each finished a call that merges an event of the same key, both calls   *)
(* have committed, the table is what merging the two events one after the  *)
(* other (in one of the two orders) gives, the two did not both take the   *)
(* insert branch, and the key has exactly one row.                         *)
(***************************************************************************)
BothEnded == \A s \in Sessions : c_sess[s].pc \in {"committed", "failed"}

\* the call of session a, then the call of session b
SerialOrder(a, b) ==
  merge_one(merge_one(c_init, c_sess[a].data[1], c_sess[a].path, TRUE),
            c_sess[b].data[1], c_sess[b].path, TRUE)

C19_PerKeySerialization ==
  BothEnded
  => /\ \A s \in Sessions : c_sess[s].pc = "committed"
     /\ c_store \in {SerialOrder("s1", "s2"), SerialOrder("s2", "s1")}
     /\ ~(\A s \in Sessions : c_sess[s].branch = "insert")
     /\ Cardinality(RowsFor(c_store, KeyOfEvent(BaseEvent))) = 1

(***************************************************************************)
(* C26  Session scope of get_db_session: the committed store changes only  *)
(* in the one step that ends a with-body that ran to its end, and takes    *)
(* what the session wrote; a call that ends with an exception leaves the   *)
(* committed store as it was and hands the exception to the caller; after  *)
(* either the session is closed: it holds no pending object and no         *)
(* transaction of its own.                                                 *)
(***************************************************************************)
StoreChanged ==
  db_events' # db_events \/ db_current' # db_current \/ db_merged' # db_merged

SessionClosed ==
  /\ pending' = <<>>
  /\ tx_events' = db_events' /\ tx_current' = db_current'
  /\ tx_merged' = db_merged'

C26_SessionScope ==
  [][ /\ StoreChanged => (Committing /\ pc = "commit")
      /\ Committing
           => /\ db_events' = tx_events
              /\ db_current' = tx_current \o pending
              /\ db_merged' = tx_merged
              /\ result'.error = ""
      /\ (Ending /\ ~Committing)
           => /\ ~StoreChanged
              /\ result'.outcome \in {"error", "cancelled"}
              /\ result'.error \in
                   {"IntegrityError exposure_events.event_id",
                    "IntegrityError uq_office_exposure",
                    "OperationalError", "KeyboardInterrupt"}
              /\ (pc = "insert" /\ ~Injected)
                   => result'.error = "IntegrityError exposure_events.event_id"
      /\ Ending => SessionClosed ]_vars

\* after a committed call, a second call ran its with-body to the end, the
\* commit raised on the unique key, and the store is what the first call left
C26_Witness ==
  /\ result.outcome = "error"
  /\ result.at[1] = "commit"
  /\ result.error = "IntegrityError uq_office_exposure"
  /\ Len(db_events) = 1 /\ Len(db_current) = 1
  /\ tx_events = db_events /\ tx_current = db_current /\ pending = <<>>

(***************************************************************************)
(* C27  Upsert path equivalence: a merge chunk that takes the native       *)
(* ON CONFLICT path leaves the reconciliation table as the _manual_upsert  *)
(* fallback would leave it from the same state, and adds to the counters   *)
(* what the fallback would add.                                            *)
(***************************************************************************)
\* what the fallback makes of the chunk at hand, once flushed
ManualOutcome ==
  LET m == _manual_upsert([ok |-> TRUE, table |-> tx_current, new |-> pending,
                           inserted |-> 0, updated |-> 0],
                          to_current_dicts(Chunk(events, i)), TRUE)
  IN [ok |-> m.ok, table |-> flush(m.table, m.new).table,
      inserted |-> m.inserted, updated |-> m.updated]

C27_PathEquivalence ==
  [][ (pc = "upsert" /\ path = "native" /\ ~Injected)
      => /\ ManualOutcome.ok
         /\ View' = ManualOutcome.table
         /\ stats'.exposures_inserted =
              stats.exposures_inserted + ManualOutcome.inserted
         /\ stats'.exposures_updated =
              stats.exposures_updated + ManualOutcome.updated ]_vars

(***************************************************************************)
(* C28  Counter conservation: when ingest_events has returned from a list  *)
(* of n events, events_inserted is n and exposures_inserted plus           *)
(* exposures_updated is n, on either upsert path and for any chunking, and *)
(* a committed call reports these counters; a call on the empty list       *)
(* reports three zeros and writes to neither table.                        *)
(***************************************************************************)
Conserved(st, n) ==
  /\ st.events_inserted = n
  /\ st.exposures_inserted + st.exposures_updated = n
  /\ st.exposures_inserted >= 0 /\ st.exposures_updated >= 0

C28_CounterConservation ==
  /\ [](pc = "commit" => (Len(events) > 0 /\ Conserved(stats, Len(events))))
  /\ [][ /\ Committing => Conserved(result'.stats, Len(events))
         /\ (pc = "idle" /\ pc' = "idle")
              => /\ result'.outcome = "ok"
                 /\ result'.stats = ZeroStats
                 /\ UNCHANGED <<db_events, db_current, tx_events, tx_current,
                                pending>> ]_vars

\* a call of three events in two chunks has returned on the manual path:
\* two of its events created a row, one was merged into a row
C28_Witness ==
  /\ pc = "commit"
  /\ path = "manual"
  /\ Len(events) = MaxBatch
  /\ MaxBatch > BATCH_SIZE
  /\ stats = [events_inserted |-> 3, exposures_inserted |-> 2,
              exposures_updated |-> 1]

(***************************************************************************)
(* C29  Reconciled timestamp order: in every reachable state every row of  *)
(* the committed reconciliation table has first_seen <= last_seen.         *)
(***************************************************************************)
C29_ReconciledTimestampOrder ==
  \A n \in 1..Len(db_current) :
    db_current[n].first_seen <= db_current[n].last_seen

(***************************************************************************)
(* C30  Reconciled status/action alignment: in every reachable state every *)
(* row of the reconciliation table with status resolved has event_action   *)
(* exposure_resolved and every row with status suppressed has event_action *)
(* exposure_suppressed, after merges that follow one another and after     *)
(* merges of two sessions that overlap.                                    *)
(***************************************************************************)
RowAligned(row) ==
  /\ row.status = "resolved" => row.event_action = "exposure_resolved"
  /\ row.status = "suppressed" => row.event_action = "exposure_suppressed"

C30_ReconciledAlignment ==
  /\ \A n \in 1..Len(m_table) : RowAligned(m_table[n])
  /\ \A n \in 1..Len(c_store) : RowAligned(c_store[n])

(***************************************************************************)
(* Hashed identifiers (utils/id_generation.py).  The SHA-256 digest is     *)
(* kept as a term over the string that is hashed: equal strings have equal *)
(* digests; the properties below compare the hashed strings themselves     *)
(* wherever two identifiers have to differ.                                *)
(***************************************************************************)
Digit(n) == <<"0", "1", "2", "3", "4", "5", "6", "7", "8", "9">>[n + 1]

\* Python str() of a non-negative int
RECURSIVE str(_)
str(n) == IF n < 10 THEN Digit(n) ELSE str(n \div 10) \o Digit(n % 10)

\* a port string that tests the port for truth: 0 is rendered like None
port_str_truthy(dst_port) ==
  IF dst_port # NoPort /\ dst_port # 0 THEN str(dst_port) ELSE ""

\* port_str = str(dst_port) if dst_port is not None else ""
port_str(dst_port) == IF dst_port # NoPort THEN str(dst_port) ELSE ""

\* a product string that formats the argument as it is: None gives "None"
product_str_unnormalized(service_product) == service_product

\* product_str = service_product or ""
product_str(service_product) ==
  IF service_product = None \/ service_product = "" THEN ""
  ELSE service_product

\* hashlib.sha256(components.encode('utf-8')).digest().hex()[:32]
sha256_hex32(components) == <<"sha256.hex[:32]", components>>

\* the f-string of generate_exposure_id
exposure_id_components(office_id, asset_id, dst_ip, dst_port, protocol, exposure_class) ==
  office_id \o "|" \o asset_id \o "|" \o dst_ip \o "|" \o port_str(dst_port)
    \o "|" \o protocol \o "|" \o exposure_class

generate_exposure_id(office_id, asset_id, dst_ip, dst_port, protocol, exposure_class) ==
  sha256_hex32(exposure_id_components(office_id, asset_id, dst_ip, dst_port,
                                      protocol, exposure_class))

\* the f-string of generate_dedupe_key
dedupe_key_components(office_id, asset_id, dst_ip, dst_port, protocol, exposure_class, service_product) ==
  office_id \o "|" \o asset_id \o "|" \o dst_ip \o "|" \o port_str(dst_port)
    \o "|" \o protocol \o "|" \o exposure_class \o "|"
    \o product_str(service_product)

generate_dedupe_key(office_id, asset_id, dst_ip, dst_port, protocol, exposure_class, service_product) ==
  sha256_hex32(dedupe_key_components(office_id, asset_id, dst_ip, dst_port,
                                     protocol, exposure_class,
                                     service_product))

\* the default of the parameter service_product
service_product_default == None

\* argument values: every field takes two values or more, one of them with
\* the separator in it; the ports are None, 0 and two whose digits overlap
IdOffices == {"office-1", "office-2"}
IdAssets == {"10.0.0.1", "10.0.0.1|10.0.0.1"}
IdAddresses == {"10.0.0.1", "10.0.0.2"}
IdPorts == {NoPort, 0, 8, 80}
IdProtocols == {"ssh", "http"}
IdClasses == {"remote_admin_exposed", "http_content_leak"}
IdProducts == {None, "", "nginx", "nginx 1.18"}

SixTuples ==
  IdOffices \X IdAssets \X IdAddresses \X IdPorts \X IdProtocols \X IdClasses

\* the six-tuples the dedupe key is called with
DedupeTuples ==
  { t \in SixTuples : /\ t[2] = "10.0.0.1" /\ t[3] = "10.0.0.1"
                      /\ t[4] \in {NoPort, 80} /\ t[6] = "http_content_leak" }

\* the calls recorded: the later one is compared with the one before it
SameFunction(fn) == IF id_calls = <<>> THEN TRUE ELSE id_calls[1].fn = fn

ExposureIdCall ==
  /\ Len(id_calls) < 2
  /\ SameFunction("generate_exposure_id")
  /\ \E t \in SixTuples :
       id_calls' = Append(id_calls,
         [ fn |-> "generate_exposure_id", args |-> t, given |-> TRUE,
           product |-> None,
           hashed |-> exposure_id_components(t[1], t[2], t[3], t[4], t[5], t[6]),
           id |-> generate_exposure_id(t[1], t[2], t[3], t[4], t[5], t[6]) ])
  /\ UNCHANGED <<store_vars, san_vars, eid_vars, tr_vars>>

\* service_product is passed (given) or left to its default
DedupeKeyCall ==
  /\ Len(id_calls) < 2
  /\ SameFunction("generate_dedupe_key")
  /\ \E t \in DedupeTuples, given \in BOOLEAN, product \in IdProducts :
       /\ ~given => product = service_product_default
       /\ id_calls' = Append(id_calls,
            [ fn |-> "generate_dedupe_key", args |-> t, given |-> given,
              product |-> product,
              hashed |-> dedupe_key_components(t[1], t[2], t[3], t[4], t[5],
                                               t[6], product),
              id |-> generate_dedupe_key(t[1], t[2], t[3], t[4], t[5], t[6],
                                         product) ])
  /\ UNCHANGED <<store_vars, san_vars, eid_vars, tr_vars>>

\* the caller goes on to another pair of calls
NextIdPair ==
  /\ Len(id_calls) = 2
  /\ id_calls' = <<>>
  /\ UNCHANGED <<store_vars, san_vars, eid_vars, tr_vars>>

NextIds ==
  \/ ExposureIdCall
  \/ DedupeKeyCall
  \/ NextIdPair

SpecIds == Init /\ [][NextIds]_vars

(***************************************************************************)
(* C22  exposure_id identity: two calls of generate_exposure_id with equal *)
(* six-tuples return the same id; two calls whose six-tuples differ in     *)
(* exactly one field hash different strings; a None port is rendered as    *)
(* the empty string, so it never hashes the string of a concrete port,     *)
(* port 0 included.                                                        *)
(***************************************************************************)
DifferingFields(s, t) == { n \in 1..6 : s[n] # t[n] }

BothCalls(fn) ==
  /\ Len(id_calls) = 2
  /\ id_calls[1].fn = fn /\ id_calls[2].fn = fn

C22_ExposureIdIdentity ==
  BothCalls("generate_exposure_id") =>
    LET a == id_calls[1]
        b == id_calls[2]
    IN /\ a.args = b.args => (a.id = b.id /\ a.hashed = b.hashed)
       /\ Cardinality(DifferingFields(a.args, b.args)) = 1
            => (a.hashed # b.hashed /\ a.id # b.id)
       /\ a.args[4] = NoPort
            => a.hashed = a.args[1] \o "|" \o a.args[2] \o "|" \o a.args[3]
                            \o "||" \o a.args[5] \o "|" \o a.args[6]

\* the same five fields once with port None and once with port 0
C22_Witness ==
  /\ BothCalls("generate_exposure_id")
  /\ DifferingFields(id_calls[1].args, id_calls[2].args) = {4}
  /\ id_calls[1].args[4] = NoPort
  /\ id_calls[2].args[4] = 0
  /\ id_calls[1].hashed # id_calls[2].hashed

(***************************************************************************)
(* C23  dedupe_key product normalization: with the other six arguments     *)
(* equal, calls that omit service_product, pass None or pass the empty     *)
(* string return the same key, and calls with two different non-empty      *)
(* products hash different strings.                                        *)
(***************************************************************************)
NoProduct(call) == ~call.given \/ call.product = None \/ call.product = ""

C23_DedupeKeyNormalization ==
  (BothCalls("generate_dedupe_key") /\ id_calls[1].args = id_calls[2].args) =>
    LET a == id_calls[1]
        b == id_calls[2]
    IN /\ (NoProduct(a) /\ NoProduct(b)) => (a.id = b.id /\ a.hashed = b.hashed)
       /\ (~NoProduct(a) /\ ~NoProduct(b) /\ a.product # b.product)
            => (a.hashed # b.hashed /\ a.id # b.id)

\* the same six arguments, once without service_product and once with ""
C23_Witness ==
  /\ BothCalls("generate_dedupe_key")
  /\ id_calls[1].args = id_calls[2].args
  /\ ~id_calls[1].given
  /\ id_calls[2].given /\ id_calls[2].product = ""
  /\ id_calls[1].id = id_calls[2].id

(***************************************************************************)
(* sanitize_payload (utils/security.py).  A dict is a function on its      *)
(* keys, a text is the sequence of its characters, and a value that may be *)
(* None is a sequence of length at most one: <<>> is None.                 *)
(***************************************************************************)
TITLE_CAP == 500
REASON_CAP == 1000
NOTES_CAP == 2000

Nothing == <<>>
Some(v) == <<v>>

\* the truncation marker '...'
Marker == <<".", ".", ".">>

\* a text of n characters
Text(n) == [ k \in 1..n |-> IF k % 2 = 1 THEN "x" ELSE "y" ]

\* Python truth of a value that may be None: a non-empty text, list or dict
Truthy(opt) == IF opt = Nothing THEN FALSE ELSE opt[1] # <<>>

\* a truncation that also cuts a text of exactly cap characters
truncate_from_cap(text, cap) ==
  IF Len(text) >= cap THEN SubSeq(text, 1, cap) \o Marker ELSE text

\* "if len(text) > cap: text = text[:cap] + '...'"
truncate(text, cap) ==
  IF Len(text) > cap THEN SubSeq(text, 1, cap) \o Marker ELSE text

\* dict.pop(key, None)
pop(dict, key) == [ k \in DOMAIN dict \ {key} |-> dict[k] ]

\* the body of "if 'http' in evidence_item and evidence_item['http']"
sanitize_http(http_data) ==
  LET titled ==
        IF "title" \in DOMAIN http_data
        THEN IF Truthy(http_data.title)
             THEN [http_data EXCEPT
                     !.title = Some(truncate(http_data.title[1], TITLE_CAP))]
             ELSE http_data
        ELSE http_data
  IN pop(pop(titled, "body"), "response_body")

\* one iteration of "for evidence_item in sanitized['evidence']"
sanitize_evidence_item(evidence_item) ==
  IF "http" \in DOMAIN evidence_item
  THEN IF Truthy(evidence_item.http)
       THEN [evidence_item EXCEPT !.http = Some(sanitize_http(evidence_item.http[1]))]
       ELSE evidence_item
  ELSE evidence_item

sanitize_payload(payload) ==
  LET p1 == IF "evidence" \in DOMAIN payload
            THEN IF Truthy(payload.evidence)
                 THEN [payload EXCEPT !.evidence =
                         Some([ n \in 1..Len(payload.evidence[1]) |->
                                  sanitize_evidence_item(payload.evidence[1][n]) ])]
                 ELSE payload
            ELSE payload
      p2 == IF "event" \in DOMAIN p1
            THEN IF "reason" \in DOMAIN p1.event
                 THEN IF Truthy(p1.event.reason)
                      THEN [p1 EXCEPT !.event.reason =
                              Some(truncate(p1.event.reason[1], REASON_CAP))]
                      ELSE p1
                 ELSE p1
            ELSE p1
  IN IF "disposition" \in DOMAIN p2
     THEN IF Truthy(p2.disposition)
          THEN IF "notes" \in DOMAIN p2.disposition[1]
               THEN IF Truthy(p2.disposition[1].notes)
                    THEN [p2 EXCEPT !.disposition =
                            Some([p2.disposition[1] EXCEPT !.notes =
                                    Some(truncate(p2.disposition[1].notes[1],
                                                  NOTES_CAP))])]
                    ELSE p2
               ELSE p2
          ELSE p2
     ELSE p2

\* texts around a cap: None, empty, at the cap and one over
TextsAround(cap) == {Nothing} \cup { Some(Text(n)) : n \in {0, cap, cap + 1} }

\* the value of evidence[i].http: None, {} or a dict with some of its keys
HttpValues ==
  {Nothing, Some(<<>>)} \cup
  { Some([title |-> t, status_code |-> 200]) : t \in TextsAround(TITLE_CAP) }
    \cup
  { Some([title |-> Some(Text(TITLE_CAP) \o Marker)]),
    Some([title |-> Some(Text(TITLE_CAP + 2)), body |-> Text(TITLE_CAP + 1),
          response_body |-> Text(3)]),
    Some([body |-> Text(1)]) }

EvidenceItems ==
  {[probe |-> "http_get"]} \cup
  { [probe |-> "http_get", http |-> h] : h \in HttpValues }

\* the value of the key evidence: None, or a list of up to MaxEvidence items
EvidenceValues ==
  {Nothing} \cup
  { Some(l) : l \in UNION { [1..n -> EvidenceItems] : n \in 0..MaxEvidence } }

EventValues ==
  {[id |-> "e1"]} \cup
  { [id |-> "e1", reason |-> r] : r \in TextsAround(REASON_CAP) }

DispositionValues ==
  {Nothing, Some([ticket |-> "T-1"])} \cup
  { Some([ticket |-> "T-1", notes |-> t]) : t \in TextsAround(NOTES_CAP) }

\* the payloads: the dump of a model, which has the three keys, and dicts
\* that lack some of them
Payloads ==
  { [event |-> ev, disposition |-> d, evidence |-> e] :
      ev \in EventValues, d \in DispositionValues, e \in EvidenceValues }
    \cup { [event |-> ev] : ev \in EventValues }
    \cup { [evidence |-> e] : e \in EvidenceValues }

\* a caller hands a payload to sanitize_payload
Sanitize ==
  /\ s_out = <<>>
  /\ \E payload \in Payloads :
       /\ s_payload' = <<payload>>
       /\ s_out' = <<sanitize_payload(payload)>>
  /\ UNCHANGED <<store_vars, ids_vars, eid_vars, tr_vars>>

\* the caller goes on to the next payload
NextPayload ==
  /\ s_out # <<>>
  /\ s_payload' = <<>>
  /\ s_out' = <<>>
  /\ UNCHANGED <<store_vars, ids_vars, eid_vars, tr_vars>>

NextSanitize ==
  \/ Sanitize
  \/ NextPayload

SpecSanitize == Init /\ [][NextSanitize]_vars

(***************************************************************************)
(* C25  Sanitizer caps: in the dict sanitize_payload returns, event.reason *)
(* has at most 1000 characters plus the three of the marker,               *)
(* disposition.notes at most 2000 plus three and every evidence[i].http    *)
(* title at most 500 plus three; a text that is longer than its cap comes  *)
(* back as its first cap characters followed by the marker, a text at or   *)
(* below the cap comes back as it was; no evidence[i].http has the key     *)
(* body or response_body; nothing else of the payload changes.             *)
(***************************************************************************)
\* the text `out` is what the cap allows for the text `inp`
Capped(inp, out, cap) ==
  IF inp = Nothing THEN out = Nothing
  ELSE /\ out # Nothing
       /\ Len(out[1]) <= cap + 3
       /\ Len(inp[1]) <= cap => out[1] = inp[1]
       /\ Len(inp[1]) > cap
            => /\ Len(out[1]) = cap + 3
               /\ \A k \in 1..cap : out[1][k] = inp[1][k]
               /\ \A k \in 1..3 : out[1][cap + k] = "."

HttpSanitized(inp, out) ==
  IF inp = Nothing THEN out = Nothing
  ELSE /\ out # Nothing
       /\ DOMAIN out[1] = DOMAIN inp[1] \ {"body", "response_body"}
       /\ \A k \in DOMAIN out[1] :
            IF k = "title" THEN Capped(inp[1].title, out[1].title, TITLE_CAP)
            ELSE out[1][k] = inp[1][k]

EvidenceSanitized(inp, out) ==
  IF inp = Nothing THEN out = Nothing
  ELSE /\ out # Nothing
       /\ Len(out[1]) = Len(inp[1])
       /\ \A n \in 1..Len(inp[1]) :
            /\ DOMAIN out[1][n] = DOMAIN inp[1][n]
            /\ out[1][n].probe = inp[1][n].probe
            /\ "http" \in DOMAIN inp[1][n]
                 => HttpSanitized(inp[1][n].http, out[1][n].http)

C25_SanitizerCaps ==
  s_out # <<>> =>
    LET inp == s_payload[1]
        out == s_out[1]
    IN /\ DOMAIN out = DOMAIN inp
       /\ "event" \in DOMAIN inp
            => /\ DOMAIN out.event = DOMAIN inp.event
               /\ out.event.id = inp.event.id
               /\ "reason" \in DOMAIN inp.event
                    => Capped(inp.event.reason, out.event.reason, REASON_CAP)
       /\ "disposition" \in DOMAIN inp
            => IF inp.disposition = Nothing THEN out.disposition = Nothing
               ELSE /\ out.disposition # Nothing
                    /\ DOMAIN out.disposition[1] = DOMAIN inp.disposition[1]
                    /\ out.disposition[1].ticket = inp.disposition[1].ticket
                    /\ "notes" \in DOMAIN inp.disposition[1]
                         => Capped(inp.disposition[1].notes,
                                   out.disposition[1].notes, NOTES_CAP)
       /\ "evidence" \in DOMAIN inp
            => EvidenceSanitized(inp.evidence, out.evidence)

\* a payload whose reason is one character over the cap, whose notes are at
\* the cap and whose second evidence item carries a long title and a body
C25_Witness ==
  /\ s_out # <<>>
  /\ DOMAIN s_payload[1] = {"event", "disposition", "evidence"}
  /\ "reason" \in DOMAIN s_payload[1].event
  /\ s_payload[1].event.reason = Some(Text(REASON_CAP + 1))
  /\ s_out[1].event.reason = Some(Text(REASON_CAP) \o Marker)
  /\ s_payload[1].disposition = Some([ticket |-> "T-1",
                                      notes |-> Some(Text(NOTES_CAP))])
  /\ s_out[1].disposition = s_payload[1].disposition
  /\ s_payload[1].evidence # Nothing
  /\ Len(s_payload[1].evidence[1]) = 2
  /\ "http" \in DOMAIN s_payload[1].evidence[1][2]
  /\ s_payload[1].evidence[1][2].http # Nothing
  /\ DOMAIN s_payload[1].evidence[1][2].http[1]
       = {"title", "body", "response_body"}
  /\ DOMAIN s_out[1].evidence[1][2].http[1] = {"title"}
  /\ Len(s_out[1].evidence[1][2].http[1].title[1]) = TITLE_CAP + 3

(***************************************************************************)
(* generate_event_id (utils/id_generation.py): str(uuid7()).  A UUID of    *)
(* version 7 carries the Unix time in milliseconds in its first 48 bits,   *)
(* the version, and 74 bits that the caller draws at random; no state is   *)
(* shared between workers.  Its string is the 8-4-4-4-12 layout of 32      *)
(* lower-case hexadecimal digits.  A string is the sequence of the code    *)
(* points of its characters, which is what Python compares.                *)
(***************************************************************************)
Workers == {"w1", "w2"}

\* the code point of a hexadecimal digit: '0'..'9', 'a'..'f'
HexDigit(n) == IF n < 10 THEN 48 + n ELSE 97 + (n - 10)

\* the code point of '-'
Dash == 45

\* hexadecimal digits without leading zeros
RECURSIVE hex_unpadded(_, _)
hex_unpadded(n, width) ==
  IF n < 16 THEN <<HexDigit(n)>>
  ELSE hex_unpadded(n \div 16, width) \o <<HexDigit(n % 16)>>

\* format(n, '0{width}x'): the last `width` hexadecimal digits of n
RECURSIVE hex(_, _)
hex(n, width) ==
  IF width = 0 THEN <<>>
  ELSE hex(n \div 16, width - 1) \o <<HexDigit(n % 16)>>

\* uuid7(): the fields of the UUID made at clock reading ms with the random
\* bits rand (rand_a is 12 bits wide, the rest goes to rand_b)
uuid7(ms, rand) ==
  [ unix_ts_ms |-> ms, ver |-> 7, rand_a |-> rand % 4096,
    var |-> 8, rand_b |-> rand \div 4096 ]

\* str(uuid): time_high-time_low-ver.rand_a-var.rand_b
uuid_str(u) ==
  hex(u.unix_ts_ms \div 65536, 8) \o <<Dash>>
    \o hex(u.unix_ts_ms % 65536, 4) \o <<Dash>>
    \o <<HexDigit(u.ver)>> \o hex(u.rand_a, 3) \o <<Dash>>
    \o <<HexDigit(u.var)>> \o hex(u.rand_b \div 4096, 3) \o <<Dash>>
    \o hex(u.rand_b % 4096, 3) \o hex(0, 9)

\* a worker calls generate_event_id()
GenerateEventId(w) ==
  /\ Len(e_issued) < MaxIssued
  /\ \E rand \in 0..MaxRand :
       e_issued' = Append(e_issued,
                          [ worker |-> w, at |-> e_clock, rand |-> rand,
                            id |-> uuid_str(uuid7(e_clock, rand)) ])
  /\ UNCHANGED e_clock
  /\ UNCHANGED <<store_vars, ids_vars, san_vars, tr_vars>>

\* a millisecond passes
Tick ==
  /\ e_clock < FirstClock + MaxTicks
  /\ e_clock' = e_clock + 1
  /\ UNCHANGED e_issued
  /\ UNCHANGED <<store_vars, ids_vars, san_vars, tr_vars>>

NextEventIds ==
  \/ \E w \in Workers : GenerateEventId(w)
  \/ Tick

SpecEventIds == Init /\ [][NextEventIds]_vars

\* Python's a < b on two strings
RECURSIVE LexLess(_, _)
LexLess(a, b) ==
  IF b = <<>> THEN FALSE
  ELSE IF a = <<>> THEN TRUE
  ELSE IF Head(a) # Head(b) THEN Head(a) < Head(b)
  ELSE LexLess(Tail(a), Tail(b))

MAX_PORT == 65535

validate_port(v) == v = NoPort \/ (0 <= v /\ v <= MAX_PORT)

\* what a scan file holds for one open port / finding: whether an address
\* can be read from it, and the port it names (NoPort: it names none)
Findings ==
  { [ip |-> a, port |-> p] : a \in BOOLEAN, p \in {NoPort, 22, MAX_PORT + 1} }

\* the port the transformer reads: int(port_elem.get('portid', '0')) in
\* nmap, host_info.get('port') in nuclei
finding_port(scanner, finding) ==
  IF scanner = "nmap" /\ finding.port = NoPort THEN 0 ELSE finding.port

\* the sub-models Vector and Exposure accept the finding; both transformers
\* build them with transport tcp, status open and first_seen = last_seen
sub_models_valid(scanner, finding) ==
  /\ validate_port(finding_port(scanner, finding))
  /\ validate_timestamps(1, 1)
  /\ validate_port_requirement("tcp", "unknown_service_exposed",
                               [present |-> TRUE,
                                port |-> finding_port(scanner, finding)])

\* the event built from a finding
finding_event(scanner, finding) ==
  [ scanner_type |-> scanner, dst_port |-> finding_port(scanner, finding),
    status |-> "open", action |-> "exposure_opened" ]

\* transformer.transform(file_path, office_id, scanner_id) is called
StartTransform ==
  /\ t_status \in {"idle", "returned", "raised"}
  /\ \E sc \in {"nmap", "nuclei"}, n \in 0..MaxFindings :
       \E f \in [1..n -> Findings] :
         /\ t_scanner' = sc
         /\ t_findings' = f
  /\ t_pos' = 0
  /\ t_events' = <<>>
  /\ t_quarantined' = <<>>
  /\ t_status' = "running"
  /\ UNCHANGED <<store_vars, ids_vars, san_vars, eid_vars>>

\* one iteration of the loop over ports / findings
ProcessFinding ==
  /\ t_status = "running"
  /\ t_pos < Len(t_findings)
  /\ LET finding == t_findings[t_pos + 1]
     IN IF ~finding.ip
        THEN \* "Skip hosts without IP" / "Could not extract IP": no event
             /\ t_pos' = t_pos + 1
             /\ UNCHANGED <<t_events, t_status>>
        ELSE IF sub_models_valid(t_scanner, finding)
        THEN \* the root model validates: status open with exposure_opened
             /\ validate_status_action_alignment("open", "exposure_opened")
             /\ t_events' = Append(t_events, finding_event(t_scanner, finding))
             /\ t_pos' = t_pos + 1
             /\ UNCHANGED t_status
        ELSE IF t_scanner = "nmap"
        THEN \* Vector(...) raises outside the try block: the exception
             \* leaves _create_port_event, _process_host and transform
             /\ t_status' = "raised"
             /\ t_events' = <<>>
             /\ UNCHANGED t_pos
        ELSE \* "except Exception: print(...); return None"
             /\ t_pos' = t_pos + 1
             /\ UNCHANGED <<t_events, t_status>>
  /\ UNCHANGED <<t_scanner, t_findings, t_quarantined>>
  /\ UNCHANGED <<store_vars, ids_vars, san_vars, eid_vars>>

\* "return events"
FinishTransform ==
  /\ t_status = "running"
  /\ t_pos = Len(t_findings)
  /\ t_status' = "returned"
  /\ UNCHANGED <<t_scanner, t_findings, t_pos, t_events, t_quarantined>>
  /\ UNCHANGED <<store_vars, ids_vars, san_vars, eid_vars>>

NextTransform ==
  \/ StartTransform
  \/ ProcessFinding
  \/ FinishTransform

SpecTransform == Init /\ [][NextTransform]_vars

(***************************************************************************)
(* C21  A single bad finding never aborts a scan: transform never ends     *)
(* with an exception because of a finding; when it has returned, the list  *)
(* holds the events of all findings that validate, in the order of the     *)
(* file, and every finding that has an address but does not validate is in *)
(* the quarantine.                                                         *)
(***************************************************************************)
\* positions of the findings with an address that validate / do not
GoodFindings ==
  { n \in 1..Len(t_findings) :
      t_findings[n].ip /\ sub_models_valid(t_scanner, t_findings[n]) }

BadFindings ==
  { n \in 1..Len(t_findings) :
      t_findings[n].ip /\ ~sub_models_valid(t_scanner, t_findings[n]) }

C21_BadFindingQuarantined ==
  /\ t_status # "raised"
  /\ t_status = "returned"
       => /\ Len(t_events) = Cardinality(GoodFindings)
          /\ \A n \in GoodFindings :
               \E m \in 1..Len(t_events) :
                 t_events[m] = finding_event(t_scanner, t_findings[n])
          /\ \A n \in BadFindings :
               \E m \in 1..Len(t_quarantined) :
                 t_quarantined[m] = t_findings[n]

=============================================================================
